---- MODULE Spec2Model ----
(***************************************************************************)
(* Model of utilities/track_rule_updates.py: the custom-rule filter, the   *)
(* pattern extractor, the drift comparator with its scratch files and its  *)
(* diff report, and the command-line boundary that catches its errors.     *)
(*                                                                         *)
(* Text (field names, pattern values, file contents, diff lines) is a      *)
(* sequence of one-character strings, so that the prefix test, the YAML    *)
(* serialisation and the whitespace-insensitive diff are computed.         *)
(* Rule ids, which are also the scratch-file names, are TLA+ strings.      *)
(***************************************************************************)
EXTENDS Integers, Sequences, FiniteSets, TLC

VARIABLES pc, input, result, args, sast, date, rules, i, fetches, log, files, writes, output

vars == <<pc, input, result, args, sast, date, rules, i, fetches, log, files, writes, output>>

pipeline == <<args, sast, date, rules, i, fetches, log, files, writes, output>>

(***************************************************************************)
(* Bounds of the model.                                                    *)
(***************************************************************************)
MaxRules == 2

MaxFields == 2

(***************************************************************************)
(* Text.                                                                   *)
(***************************************************************************)
PatternPrefix == <<"p", "a", "t", "t", "e", "r", "n">>

K_pattern == PatternPrefix

K_patterns == PatternPrefix \o <<"s">>

K_pattern_not == PatternPrefix \o <<"-", "n", "o", "t">>

K_pat == <<"p", "a", "t">>

K_message == <<"m", "e", "s", "s", "a", "g", "e">>

\* A slip of the test: prefix.startswith(s).
StartsWith_Reversed(s, prefix) ==
    /\ Len(prefix) >= Len(s)
    /\ SubSeq(prefix, 1, Len(s)) = s

\* str.startswith(prefix)
StartsWith(s, prefix) ==
    /\ Len(s) >= Len(prefix)
    /\ SubSeq(s, 1, Len(prefix)) = prefix

\* A dict is the sequence of its entries [k, v], in key order.  DictsUpTo:
\* the dicts of at most n entries drawn from S, no key twice (json.load keeps
\* one entry per key, in file order).
DistinctKeys(d) == \A a, b \in 1..Len(d) : a # b => d[a].k # d[b].k

RECURSIVE DictsUpTo(_, _)
DictsUpTo(S, n) ==
    IF n = 0 THEN {<<>>}
    ELSE LET shorter == DictsUpTo(S, n - 1)
             longer == {Append(d, e) : d \in {x \in shorter : Len(x) = n - 1}, e \in S}
         IN  shorter \cup {d \in longer : DistinctKeys(d)}

(***************************************************************************)
(* Results of a call: a value, or the exception that left the function.    *)
(***************************************************************************)
Returned(v) == [exc |-> "none", value |-> v]

Raised(e) == [exc |-> e, value |-> <<>>]

(***************************************************************************)
(* extract_patterns(rule).  A rule dict is modelled by                     *)
(*   definition : what rule.get('definition') finds: "absent" (no key),    *)
(*                "empty" ({}), "norules" (a non-empty mapping without the *)
(*                'rules' key), "emptyrules" ({'rules': []}) or "rules"    *)
(*                ({'rules': [nested, ...]});                              *)
(*   nested     : the entries of definition['rules'][0], in key order;     *)
(*   fields     : the rule's own top-level entries, in key order.          *)
(***************************************************************************)
\* [{key: d[key]} for key in d.keys() if key.startswith('pattern')]
Projection(d) ==
    LET IsPattern(e) == StartsWith(e.k, PatternPrefix)
        kept == SelectSeq(d, IsPattern)
    IN  [n \in 1..Len(kept) |-> <<kept[n]>>]

extract_patterns(rule) ==
    IF rule.definition \notin {"absent", "empty"}
    THEN IF rule.definition = "norules" THEN Raised("KeyError")
         ELSE IF rule.definition = "emptyrules" THEN Raised("IndexError")
         ELSE Returned(Projection(rule.nested))
    ELSE Returned(Projection(rule.fields))

(***************************************************************************)
(* extract_custom_rules(filename).  Of a rule of the file, the filter      *)
(* reads                                                                   *)
(*   has_metadata : whether the rule has the 'metadata' key;               *)
(*   semgrep_dev  : "absent" ('semgrep.dev' is no key of the metadata),    *)
(*                  "empty" (the key is there, without rule.origin), or    *)
(*                  the value of metadata['semgrep.dev']['rule']['origin'].*)
(***************************************************************************)
\* A slip of the test: the presence of 'semgrep.dev' alone.
IsCustomTest_KeyOnly(rule) == rule.semgrep_dev # "absent"

IsCustomTest(rule) ==
    /\ rule.semgrep_dev # "absent"
    /\ rule.semgrep_dev = "custom"

\* The list comprehension raises at the first rule whose test raises.
TestRaises(rule) ==
    \/ ~rule.has_metadata
    \/ rule.semgrep_dev = "empty"

extract_custom_rules(file) ==
    IF \E n \in 1..Len(file) : TestRaises(file[n])
    THEN Raised("KeyError")
    ELSE Returned(SelectSeq(file, IsCustomTest))

(***************************************************************************)
(* yaml.dump of a pattern projection: a block sequence with one            *)
(* "- name: value" line per one-key mapping, "[]" for the empty list.  The  *)
(* values of the model are plain scalars (letters and inner spaces), which *)
(* the emitter writes unquoted and unchanged.                              *)
(***************************************************************************)
NL == "\n"

RECURSIVE yaml_dump(_)
yaml_dump(patterns) ==
    IF patterns = <<>> THEN <<"[", "]", NL>>
    ELSE LET e == Head(patterns)[1]
             line == <<"-", " ">> \o e.k \o <<":", " ">> \o e.v \o <<NL>>
         IN  IF Len(patterns) = 1 THEN line
             ELSE line \o yaml_dump(Tail(patterns))

\* A dump that leaves the text in the buffer of the file object until close.
Flushed_Nothing(text) == <<>>

\* What of a dumped text has reached the file when yaml.dump(data, stream)
\* returns: the emitter flushes the stream when it ends the YAML stream.
Flushed(text) == text

(***************************************************************************)
(* The scratch files.  fs maps the names of the files of the working       *)
(* directory to their contents.                                            *)
(***************************************************************************)
NoFiles == <<>>

\* open(name, 'w'): the file is created or truncated.
open_w(fs, name) == (name :> <<>>) @@ fs

\* A write of data at an offset of the file, through a handle that keeps its
\* own position: the bytes beyond the data stay.
write_at(fs, name, offset, data) ==
    LET old == fs[name]
        before == SubSeq(old, 1, offset)
        after == SubSeq(old, offset + Len(data) + 1, Len(old))
    IN  (name :> (before \o data \o after)) @@ fs

(***************************************************************************)
(* diff -U 0 -b a b.  Lines are compared after -b's normalisation (a run   *)
(* of blanks counts as one blank, blanks at the end of a line are          *)
(* dropped).  The output is empty when no line differs, and otherwise the  *)
(* two header lines followed by the removed ("-") and added ("+") lines of *)
(* a longest-common-subsequence edit script; the "@@" range lines and the  *)
(* modification times of the header are left out.                         *)
(***************************************************************************)
\* The lines of a text, without their line breaks.
RECURSIVE SplitLines(_)
SplitLines(text) ==
    IF text = <<>> THEN <<>>
    ELSE LET nl == CHOOSE n \in 1..(Len(text) + 1) :
                       /\ n = Len(text) + 1 \/ text[n] = NL
                       /\ \A m \in 1..(n - 1) : text[m] # NL
         IN  <<SubSeq(text, 1, nl - 1)>> \o SplitLines(SubSeq(text, nl + 1, Len(text)))

\* A line as -b compares it: of a run of blanks the last one stays, unless
\* the run ends the line.
IgnoreSpaceChange(line) ==
    LET Stays(n) == line[n] # " " \/ (n < Len(line) /\ line[n + 1] # " ")
        marked == [n \in 1..Len(line) |-> IF Stays(n) THEN line[n] ELSE "dropped"]
    IN  SelectSeq(marked, LAMBDA c : c # "dropped")

SameLine(x, y) == IgnoreSpaceChange(x) = IgnoreSpaceChange(y)

\* The edit script that turns the lines a into the lines b; na and nb are the
\* lines as -b compares them.
RECURSIVE EditScript(_, _, _, _)
EditScript(a, b, na, nb) ==
    IF a = <<>> /\ b = <<>> THEN <<>>
    ELSE IF a = <<>>
    THEN <<(<<"+">> \o Head(b))>> \o EditScript(a, Tail(b), na, Tail(nb))
    ELSE IF b = <<>>
    THEN <<(<<"-">> \o Head(a))>> \o EditScript(Tail(a), b, Tail(na), nb)
    ELSE IF Head(na) = Head(nb) THEN EditScript(Tail(a), Tail(b), Tail(na), Tail(nb))
    ELSE LET del == EditScript(Tail(a), b, Tail(na), nb)
             add == EditScript(a, Tail(b), na, Tail(nb))
         IN  IF Len(del) <= Len(add) THEN <<(<<"-">> \o Head(a))>> \o del
             ELSE <<(<<"+">> \o Head(b))>> \o add

\* The lines as -b compares them.
RECURSIVE IgnoreSpaceChanges(_)
IgnoreSpaceChanges(lines) ==
    IF lines = <<>> THEN <<>>
    ELSE <<IgnoreSpaceChange(Head(lines))>> \o IgnoreSpaceChanges(Tail(lines))

UnifiedDiff(a, b, na, nb, name_a, name_b) ==
    IF na = nb THEN <<>>
    ELSE <<(<<"--- ", name_a>>), (<<"+++ ", name_b>>)>> \o EditScript(a, b, na, nb)

DiffLines(a, b, name_a, name_b) ==
    UnifiedDiff(a, b, IgnoreSpaceChanges(a), IgnoreSpaceChanges(b), name_a, name_b)

diff_U0_b(fs, name_a, name_b) ==
    DiffLines(SplitLines(fs[name_a]), SplitLines(fs[name_b]), name_a, name_b)

(***************************************************************************)
(* Timestamps.  The text of last_change_at is modelled by its fields       *)
(* [wd, d, mon, y, h, mi, s, tz]; a datetime is <<y, mo, d, h, mi, s>>.    *)
(* strptime checks the weekday's name, not that it is the date's weekday.  *)
(***************************************************************************)
DayNames == {"Mon", "Tue", "Wed", "Thu", "Fri", "Sat", "Sun"}

MonthNames ==
    <<"Jan", "Feb", "Mar", "Apr", "May", "Jun",
      "Jul", "Aug", "Sep", "Oct", "Nov", "Dec">>

\* datetime.strptime(text, "%a, %d %b %Y %H:%M:%S %Z")
strptime_rfc1123(text) ==
    IF /\ text.wd \in DayNames
       /\ \E m \in 1..Len(MonthNames) : MonthNames[m] = text.mon
       /\ text.tz \in {"GMT", "UTC"}
       /\ text.d \in 1..31 /\ text.h \in 0..23 /\ text.mi \in 0..59 /\ text.s \in 0..61
    THEN LET mo == CHOOSE m \in 1..Len(MonthNames) : MonthNames[m] = text.mon
         IN  Returned(<<text.y, mo, text.d, text.h, text.mi, text.s>>)
    ELSE Raised("ValueError")

\* datetime.strptime(args.date, '%Y-%m-%d'): midnight of the day.
strptime_date(d) == <<d.y, d.m, d.d, 0, 0, 0>>

\* datetime.__lt__ of two naive datetimes.
RECURSIVE DtLess(_, _)
DtLess(a, b) ==
    IF a = <<>> THEN FALSE
    ELSE IF Head(a) # Head(b) THEN Head(a) < Head(b)
    ELSE DtLess(Tail(a), Tail(b))

\* A slip of the comparison: last_change_at <= date.
NotUpdatedSince_OrEqual(cutoff, last_change_at) ==
    /\ cutoff.given
    /\ (DtLess(last_change_at, cutoff.dt) \/ last_change_at = cutoff.dt)

\* "if date and last_change_at < date": the rule is passed over.
NotUpdatedSince(cutoff, last_change_at) ==
    /\ cutoff.given
    /\ DtLess(last_change_at, cutoff.dt)

\* A comparison that ignores the order of the fields.
NotEqual_Unordered(original_pattern, current_pattern) ==
    {original_pattern[n] : n \in 1..Len(original_pattern)}
        # {current_pattern[n] : n \in 1..Len(current_pattern)}

\* "if original_pattern != current_pattern": list inequality, entry by entry.
NotEqual(original_pattern, current_pattern) == original_pattern # current_pattern

\* A loop that passes over a failing rule and goes on.
AfterIteration_Swallow(exc) == "loop"

\* An exception raised in the loop is caught nowhere in compare_with_original:
\* it leaves the loop and the function, for the handlers of __main__.
AfterIteration(exc) == IF exc # "none" THEN "failed" ELSE "loop"

\* A test of the key's presence, not of its value.
HasOriginalRule_KeyPresent(rule) == rule.has_original_rule

\* "if rule_metadata.get('original-rule')": the key is there with a
\* non-empty value.
HasOriginalRule(rule) ==
    /\ rule.has_original_rule
    /\ rule.original_rule # ""

(***************************************************************************)
(* The inputs of the model.                                                *)
(***************************************************************************)
Str_a_b == <<"a", " ", "b">>

Str_a__b == <<"a", " ", " ", "b">>

Str_c == <<"c">>

Field(k, v) == [k |-> k, v |-> v]

\* The pattern and other fields of the custom rules of sast.json.
CustomFields ==
    <<Field(K_pattern, Str_a_b), Field(K_pattern_not, Str_c), Field(K_message, Str_c)>>

RuleIds == {"r1", "r2"}

\* The rules of sast.json: with an origin, with or without an original-rule
\* reference, and without metadata.
SastRules ==
    [id : RuleIds, has_metadata : {TRUE}, semgrep_dev : {"custom"},
     has_original_rule : {TRUE}, original_rule : {"", "r1", "o1"},
     definition : {"absent"}, nested : {<<>>}, fields : {CustomFields}]
    \cup
    [id : RuleIds, has_metadata : {TRUE}, semgrep_dev : {"custom"},
     has_original_rule : {FALSE}, original_rule : {""},
     definition : {"absent"}, nested : {<<>>}, fields : {CustomFields}]
    \cup
    [id : RuleIds, has_metadata : {TRUE}, semgrep_dev : {"community"},
     has_original_rule : {TRUE}, original_rule : {"o1"},
     definition : {"absent"}, nested : {<<>>}, fields : {CustomFields}]
    \cup
    [id : {"r1"}, has_metadata : {FALSE}, semgrep_dev : {"absent"},
     has_original_rule : {FALSE}, original_rule : {""},
     definition : {"absent"}, nested : {<<>>}, fields : {CustomFields}]

RECURSIVE ListsUpTo(_, _)
ListsUpTo(S, n) ==
    IF n = 0 THEN {<<>>}
    ELSE LET shorter == ListsUpTo(S, n - 1)
         IN  shorter \cup
             {Append(l, e) : l \in {x \in shorter : Len(x) = n - 1}, e \in S}

\* --date: absent, or a day.
CutoffDay == [y |-> 2024, m |-> 3, d |-> 10]

NoDate == [given |-> FALSE, dt |-> <<>>]

\* The texts of last_change_at: the last second before the cutoff day, its
\* first second, a later day, and two texts strptime rejects.
Stamp(wd, d, mon, y, h, mi, s, tz) ==
    [wd |-> wd, d |-> d, mon |-> mon, y |-> y, h |-> h, mi |-> mi, s |-> s, tz |-> tz]

GoodStamps ==
    {Stamp("Sat", 9, "Mar", 2024, 23, 59, 59, "GMT"),
     Stamp("Sun", 10, "Mar", 2024, 0, 0, 0, "GMT"),
     Stamp("Thu", 2, "Jan", 2025, 15, 4, 5, "GMT")}

BadStamps == {Stamp("Sun", 10, "March", 2024, 0, 0, 0, "GMT")}

\* What get_rule returns or raises.  A registry rule carries its pattern
\* fields in definition.rules[0]; a flat one carries them at the top level.
RegistryShapes ==
    {[definition |-> "absent", nested |-> <<>>,
      fields |-> <<Field(K_pattern, Str_a_b), Field(K_pattern_not, Str_c)>>],
     [definition |-> "rules", fields |-> <<>>,
      nested |-> <<Field(K_pattern, Str_a__b), Field(K_pattern_not, Str_c)>>],
     [definition |-> "rules", fields |-> <<>>,
      nested |-> <<Field(K_pattern_not, Str_c), Field(K_message, Str_a_b),
                   Field(K_pattern, Str_a_b)>>]}

Response(status, stamp, shape) ==
    [status |-> status, last_change_at |-> stamp, definition |-> shape.definition,
     nested |-> shape.nested, fields |-> shape.fields]

NoShape == [definition |-> "absent", nested |-> <<>>, fields |-> <<>>]

NoStamp == Stamp("", 0, "", 0, 0, 0, 0, "")

NoResponse == Response("none", NoStamp, NoShape)

Responses ==
    {Response("ok", t, s) : t \in GoodStamps, s \in RegistryShapes}
    \cup {Response("ok", t, NoShape) : t \in BadStamps}
    \cup {Response("http_error", NoStamp, NoShape)}

(***************************************************************************)
(* One iteration of the loop of compare_with_original, for the rule and    *)
(* what get_rule answers for it: the files, the output and the outcome it  *)
(* leaves.                                                                 *)
(***************************************************************************)
Report(id, diff) == [kind |-> "report", id |-> id, text |-> diff]

ErrorLine(kind) == [kind |-> kind, id |-> "", text |-> <<>>]

\* Lines 86-91: the with block of a mismatching pair.
WriteAndDiff(fs, rule, original_pattern, current_pattern) ==
    LET id == rule.id
        original_rule_id == rule.original_rule
        original_yaml == yaml_dump(original_pattern)
        current_yaml == yaml_dump(current_pattern)
        fs1 == open_w(fs, id)
        fs2 == open_w(fs1, original_rule_id)
        fs3 == write_at(fs2, original_rule_id, 0, Flushed(original_yaml))
        fs4 == write_at(fs3, id, 0, Flushed(current_yaml))
        diff_result == diff_U0_b(fs4, id, original_rule_id)
        \* leaving the with block closes the files, the last opened first,
        \* and writes what their buffers still hold
        fs5 == write_at(fs4, original_rule_id, Len(Flushed(original_yaml)),
                        SubSeq(original_yaml, Len(Flushed(original_yaml)) + 1,
                               Len(original_yaml)))
        fs6 == write_at(fs5, id, Len(Flushed(current_yaml)),
                        SubSeq(current_yaml, Len(Flushed(current_yaml)) + 1,
                               Len(current_yaml)))
    IN  [fs |-> fs6,
         read |-> <<fs4[id], fs4[original_rule_id]>>,
         opened |-> <<id, original_rule_id>>,
         diff |-> diff_result]

NoRead == <<>>

Entry(resp, outcome, read) ==
    [resp |-> resp, outcome |-> outcome, read |-> read]

\* Lines 64-91: the body of the loop.  exc is the exception that leaves it.
Iteration(rule, resp, cutoff, fs) ==
    LET Out(exc, outcome, fs_after, printed, opened, read) ==
            [exc |-> exc, outcome |-> outcome, fs |-> fs_after,
             printed |-> printed, opened |-> opened, read |-> read]
        Quiet(exc, outcome) == Out(exc, outcome, fs, <<>>, <<>>, NoRead)
    IN  IF ~HasOriginalRule(rule) THEN Quiet("none", "no_original")
        ELSE IF resp.status # "ok" THEN Quiet("RequestException", "fetch_failed")
        ELSE LET last_change_at == strptime_rfc1123(resp.last_change_at)
             IN  IF last_change_at.exc # "none"
                 THEN Quiet(last_change_at.exc, "bad_timestamp")
                 ELSE IF NotUpdatedSince(cutoff, last_change_at.value)
                 THEN Quiet("none", "skipped")
                 ELSE LET original_pattern == extract_patterns(resp)
                          current_pattern == extract_patterns(rule)
                      IN  IF original_pattern.exc # "none"
                          THEN Quiet(original_pattern.exc, "bad_shape")
                          ELSE IF current_pattern.exc # "none"
                          THEN Quiet(current_pattern.exc, "bad_shape")
                          ELSE IF NotEqual(original_pattern.value, current_pattern.value)
                          THEN LET w == WriteAndDiff(fs, rule, original_pattern.value,
                                                     current_pattern.value)
                               IN  Out("none", "differs", w.fs,
                                       <<Report(rule.id, w.diff)>>, w.opened, w.read)
                          ELSE Quiet("none", "equal")

(***************************************************************************)
(* The run of __main__.                                                    *)
(***************************************************************************)
\* Lines 124-129: the message printed for an exception.
Handler(exc) ==
    IF exc = "RequestException" THEN ErrorLine("http_error") ELSE ErrorLine("error")

Init ==
    /\ pc = "main"
    /\ input = <<>>
    /\ result = Returned(<<>>)
    /\ args \in {[given |-> FALSE, day |-> CutoffDay], [given |-> TRUE, day |-> CutoffDay]}
    /\ sast \in ListsUpTo(SastRules, MaxRules)
    /\ date = NoDate
    /\ rules = <<>>
    /\ i = 0
    /\ fetches = <<>>
    /\ log = <<>>
    /\ files = NoFiles
    /\ writes = <<>>
    /\ output = <<>>

\* Lines 112-123 up to the call of compare_with_original.
Main ==
    /\ pc = "main"
    /\ date' = IF args.given THEN [given |-> TRUE, dt |-> strptime_date(args.day)]
               ELSE NoDate
    /\ LET custom_rules == extract_custom_rules(sast)
       IN  IF custom_rules.exc # "none"
           THEN /\ output' = Append(output, Handler(custom_rules.exc))
                /\ pc' = "failed"
                /\ UNCHANGED <<rules, i>>
           ELSE /\ rules' = custom_rules.value
                /\ i' = 1
                /\ pc' = "loop"
                /\ UNCHANGED output
    /\ UNCHANGED <<input, result, args, sast, fetches, log, files, writes>>

\* One pass of "for rule in rules", with what get_rule answers when called.
Step ==
    /\ pc = "loop"
    /\ i <= Len(rules)
    /\ \E resp \in IF HasOriginalRule(rules[i]) THEN Responses ELSE {NoResponse} :
         LET rule == rules[i]
             it == Iteration(rule, resp, date, files)
         IN  /\ fetches' = IF HasOriginalRule(rule)
                           THEN Append(fetches, rule.original_rule) ELSE fetches
             /\ log' = Append(log, Entry(resp, it.outcome, it.read))
             /\ files' = it.fs
             /\ writes' = writes \o [n \in 1..Len(it.opened) |->
                                        [pair |-> i, name |-> it.opened[n]]]
             /\ output' = IF it.exc # "none" THEN Append(output, Handler(it.exc))
                           ELSE output \o it.printed
             /\ pc' = AfterIteration(it.exc)
             /\ i' = IF AfterIteration(it.exc) = "failed" THEN i ELSE i + 1
    /\ UNCHANGED <<input, result, args, sast, date, rules>>

\* The loop is over: compare_with_original returns and the program ends.
Return ==
    /\ pc = "loop"
    /\ i > Len(rules)
    /\ pc' = "done"
    /\ UNCHANGED <<input, result, pipeline>>

Next == Main \/ Step \/ Return

Spec == Init /\ [][Next]_vars

(***************************************************************************)
(* The functions on their own: extract_custom_rules on the rule sets of a  *)
(* file, extract_patterns on rule records of every shape.                  *)
(***************************************************************************)
FilterRules ==
    [id : RuleIds, has_metadata : {TRUE},
     semgrep_dev : {"absent", "empty", "custom", "community"}]
    \cup [id : RuleIds, has_metadata : {FALSE}, semgrep_dev : {"absent"}]

FieldEntries ==
    {Field(k, v) : k \in {K_pattern, K_patterns, K_pattern_not, K_pat, K_message},
                   v \in {Str_a_b, Str_c}}

PatternRules ==
    [definition : {"absent", "empty", "norules", "emptyrules"}, nested : {<<>>},
     fields : DictsUpTo(FieldEntries, MaxFields)]
    \cup
    [definition : {"rules"}, nested : DictsUpTo(FieldEntries, MaxFields),
     fields : {<<>>, <<Field(K_pattern, Str_c)>>}]

Idle ==
    /\ args = [given |-> FALSE, day |-> CutoffDay]
    /\ sast = <<>>
    /\ date = NoDate
    /\ rules = <<>>
    /\ i = 0
    /\ fetches = <<>>
    /\ log = <<>>
    /\ files = NoFiles
    /\ writes = <<>>
    /\ output = <<>>

InitFilter ==
    /\ pc = "call"
    /\ input \in ListsUpTo(FilterRules, MaxRules)
    /\ result = Returned(<<>>)
    /\ Idle

CallFilter ==
    /\ pc = "call"
    /\ result' = extract_custom_rules(input)
    /\ pc' = "returned"
    /\ UNCHANGED <<input, pipeline>>

SpecFilter == InitFilter /\ [][CallFilter]_vars

InitPatterns ==
    /\ pc = "call"
    /\ input \in PatternRules
    /\ result = Returned(<<>>)
    /\ Idle

CallPatterns ==
    /\ pc = "call"
    /\ result' = extract_patterns(input)
    /\ pc' = "returned"
    /\ UNCHANGED <<input, pipeline>>

SpecPatterns == InitPatterns /\ [][CallPatterns]_vars

(***************************************************************************)
(* Properties of the two functions.                                        *)
(***************************************************************************)
\* The n-th (from 1) member of a finite set of integers, in increasing order.
Nth(S, n) == CHOOSE x \in S : Cardinality({y \in S : y < x}) = n - 1

\* l is the subsequence of s at the positions of P, in order, each once.
IsSubsequenceAt(l, s, P) ==
    /\ Len(l) = Cardinality(P)
    /\ \A n \in 1..Len(l) : l[n] = s[Nth(P, n)]

\* The rule's metadata declares the origin "custom".
DeclaresCustom(rule) == rule.has_metadata /\ rule.semgrep_dev = "custom"

\* The rule has a metadata mapping, whose origin information, if any, is whole.
WellFormedMetadata(rule) == rule.has_metadata /\ rule.semgrep_dev # "empty"

CustomPositions(s) == {n \in 1..Len(s) : DeclaresCustom(s[n])}

C8_FilterToleratesMissingMetadata ==
    pc = "returned"
        => /\ result.exc = "none"
           /\ IsSubsequenceAt(result.value, input, CustomPositions(input))

\* The name begins with the pattern prefix.
HasPatternPrefix(name) ==
    /\ Len(name) >= Len(PatternPrefix)
    /\ \A n \in 1..Len(PatternPrefix) : name[n] = PatternPrefix[n]

\* The entries extract_patterns reads in a rule of either shape.
ShapeEntries(rule) == IF rule.definition = "rules" THEN rule.nested ELSE rule.fields

PatternPositions(d) == {n \in 1..Len(d) : HasPatternPrefix(d[n].k)}

\* C6: for a rule of either shape, extract_patterns returns one single-key
\* mapping per field whose name starts with the pattern prefix, in the order
\* of the fields, nothing for the other fields, and the empty sequence when
\* no field has the prefix.
C6_ProjectionIsPrefixedFields ==
    (pc = "returned" /\ input.definition \in {"absent", "rules"})
        => LET d == ShapeEntries(input)
               P == PatternPositions(d)
           IN  /\ result.exc = "none"
               /\ Len(result.value) = Cardinality(P)
               /\ \A n \in 1..Len(result.value) :
                      result.value[n] = <<[k |-> d[Nth(P, n)].k, v |-> d[Nth(P, n)].v]>>
               /\ (P = {} => result.value = <<>>)

\* A registry rule whose second nested field only is a pattern field.
C6_Witness ==
    /\ pc = "returned"
    /\ input.definition = "rules"
    /\ Len(input.nested) = 2
    /\ input.nested[1].k = K_pat
    /\ input.nested[2].k = K_pattern_not
    /\ result.value = <<(<<input.nested[2]>>)>>

\* C7: extract_patterns never fails: on a record that lacks expected fields
\* (a definition without the rules list, or with an empty one) it returns the
\* empty projection.
C7_ExtractNeverRaises ==
    pc = "returned"
        => /\ result.exc = "none"
           /\ (input.definition \in {"norules", "emptyrules"} => result.value = <<>>)

(***************************************************************************)
(* Properties of a run.  log[n] is what the n-th pass of the loop did for  *)
(* rules[n].                                                               *)
(***************************************************************************)
Reports == SelectSeq(output, LAMBDA line : line.kind = "report")

\* The name and value pairs of the pattern fields of a rule of either shape.
PatternPairs(rule) ==
    LET d == ShapeEntries(rule)
        P == PatternPositions(d)
    IN  [n \in 1..Cardinality(P) |-> <<d[Nth(P, n)].k, d[Nth(P, n)].v>>]

MonthNumber(name) == CHOOSE m \in 1..Len(MonthNames) : MonthNames[m] = name

\* The stamp is of a day before the day: of a time before its midnight.
BeforeDay(stamp, day) ==
    \/ stamp.y < day.y
    \/ stamp.y = day.y /\ MonthNumber(stamp.mon) < day.m
    \/ stamp.y = day.y /\ MonthNumber(stamp.mon) = day.m /\ stamp.d < day.d

\* The passes whose original was fetched and whose timestamp parsed.
Comparable == {n \in 1..Len(log) : log[n].outcome \in {"skipped", "equal", "differs"}}

Compared == {n \in 1..Len(log) : log[n].outcome \in {"equal", "differs"}}

Differing == {n \in 1..Len(log) : log[n].outcome = "differs"}

\* The pass this step makes ends with the outcome.
Passes(outcome) ==
    /\ pc = "loop"
    /\ Len(log') = Len(log) + 1
    /\ log'[Len(log')].outcome = outcome

C2_Decision ==
    \A n \in Comparable :
        (n \in Compared) <=>
            (~args.given \/ ~BeforeDay(log[n].resp.last_change_at, args.day))

C2_SkipIsSilent ==
    Passes("skipped") => UNCHANGED <<output, files, writes>>

\* C2: a comparable rule is compared if and only if no cutoff was given or
\* its original's last_change_at is not before the cutoff; a skipped rule
\* prints nothing and writes no file, whatever its patterns.
C2_CutoffGate == []C2_Decision /\ [][C2_SkipIsSilent]_vars

\* With a cutoff, an original changed the second before it was skipped though
\* its patterns differ, and one changed at the cutoff was compared.
C2_Witness ==
    /\ args.given
    /\ Len(log) = 2
    /\ log[1].outcome = "skipped"
    /\ PatternPairs(log[1].resp) # PatternPairs(rules[1])
    /\ log[2].outcome = "differs"
    /\ ~BeforeDay(log[2].resp.last_change_at, args.day)
    /\ Len(Reports) = 1
    /\ pc = "done"

\* C3: of the rules that reach the comparison, exactly those whose
\* projection differs from their original's (as sequences of name and value
\* pairs) get a report block, headed by their id, and their two scratch
\* files; the others get no output and no file.
C3_ReportIffDifferent ==
    /\ \A n \in Compared :
           (n \in Differing) <=> (PatternPairs(log[n].resp) # PatternPairs(rules[n]))
    /\ Len(Reports) = Cardinality(Differing)
    /\ \A k \in 1..Len(Reports) : Reports[k].id = rules[Nth(Differing, k)].id
    /\ Len(writes) = 2 * Cardinality(Differing)
    /\ \A k \in 1..Cardinality(Differing) :
           LET n == Nth(Differing, k)
           IN  /\ writes[2 * k - 1] = [pair |-> n, name |-> rules[n].id]
               /\ writes[2 * k] = [pair |-> n, name |-> rules[n].original_rule]
               /\ {rules[n].id, rules[n].original_rule} \subseteq DOMAIN files

\* A rule with the fields of its original in another order was reported, and
\* a rule with the pattern fields of its original was not.
C3_Witness ==
    /\ pc = "done"
    /\ Len(log) = 2
    /\ log[1].outcome = "differs"
    /\ log[1].resp.definition = "rules"
    /\ {PatternPairs(log[1].resp)[n] : n \in 1..2} = {PatternPairs(rules[1])[n] : n \in 1..2}
    /\ log[2].outcome = "equal"
    /\ Len(Reports) = 1
    /\ Len(writes) = 2

\* The rule declares a reference to an original rule (an empty value names
\* no rule).
DeclaresOriginal(rule) == rule.has_original_rule /\ rule.original_rule # ""

Declaring == {n \in 1..Len(log) : DeclaresOriginal(rules[n])}

C4_Fetches ==
    /\ IsSubsequenceAt(fetches, [n \in 1..Len(rules) |-> rules[n].original_rule], Declaring)
    /\ (i >= 1 /\ rules = <<>>) => (fetches = <<>> /\ output = <<>> /\ pc # "failed")
    /\ pc = "done" => Len(log) = Len(rules)

C4_NoOriginalIsSilent ==
    /\ Passes("no_original") => UNCHANGED <<fetches, output, files, writes>>
    /\ (pc = "loop" /\ rules = <<>>) => pc' = "done"

\* C4: get_rule is called for the rules that declare an original rule, once
\* each and in the order of the rule set, and for no other; a custom rule
\* without the reference causes no fetch and no output; with no custom rule
\* at all nothing is fetched or printed and the run ends normally.
C4_FetchOnlyDeclared == []C4_Fetches /\ [][C4_NoOriginalIsSilent]_vars

\* A run over a rule without the reference and then a rule with it.
C4_Witness ==
    /\ pc = "done"
    /\ Len(rules) = 2
    /\ ~rules[1].has_original_rule
    /\ rules[2].original_rule = "o1"
    /\ fetches = <<"o1">>
    /\ Len(sast) = 2

C5_Aborted ==
    (pc = "failed" /\ i >= 1)
        => /\ Len(log) = i
           /\ log[i].outcome \in {"fetch_failed", "bad_timestamp"}
           /\ \A n \in 1..(i - 1) : log[n].outcome \notin {"fetch_failed", "bad_timestamp"}
           /\ Len(fetches) = Cardinality({n \in 1..i : DeclaresOriginal(rules[n])})
           /\ output = Append(Reports, ErrorLine(IF log[i].outcome = "fetch_failed"
                                                 THEN "http_error" ELSE "error"))

C5_AbortStep ==
    /\ Len(output') >= Len(output)
    /\ \A n \in 1..Len(output) : output'[n] = output[n]
    /\ (Passes("fetch_failed") \/ Passes("bad_timestamp"))
           => /\ pc' = "failed"
              /\ Len(output') = Len(output) + 1
              /\ UNCHANGED <<files, writes>>
    /\ pc = "failed" => UNCHANGED vars

\* C5: a failed fetch or a malformed timestamp at a rule ends the run there:
\* the error reaches the command line, which prints its message; no later
\* rule is fetched, compared or reported; the blocks printed before stay as
\* the run printed them, which up to that rule is a run without failure.
C5_FailureAborts == []C5_Aborted /\ [][C5_AbortStep]_vars

\* A report for the first rule, then a malformed timestamp at the second,
\* under a cutoff.
C5_Witness ==
    /\ pc = "failed"
    /\ args.given
    /\ Len(rules) = 2
    /\ i = 2
    /\ log[2].outcome = "bad_timestamp"
    /\ Len(output) = 2
    /\ output[1].kind = "report"
    /\ output[2].kind = "error"

\* yaml.dump of the pattern fields of a rule of either shape.
Serialised(rule) ==
    LET pairs == PatternPairs(rule)
    IN  yaml_dump([n \in 1..Len(pairs) |-> <<[k |-> pairs[n][1], v |-> pairs[n][2]]>>])

\* The two texts have the same lines up to the amount of white space.
SameModuloBlanks(a, b) ==
    LET la == SplitLines(a)
        lb == SplitLines(b)
    IN  /\ Len(la) = Len(lb)
        /\ \A n \in 1..Len(la) : SameLine(la[n], lb[n])

\* C9, as stated: for every mismatching pair the diff reads both complete
\* serialisations, and the report is the rule's id followed by a non-empty
\* diff.
C9_NonEmptyDiffWheneverDifferent ==
    \A k \in 1..Len(Reports) :
        LET n == Nth(Differing, k)
        IN  /\ log[n].read = <<Serialised(rules[n]), Serialised(log[n].resp)>>
            /\ Reports[k].id = rules[n].id
            /\ Reports[k].text # <<>>

\* C9, amended: for every mismatching pair the diff runs after both dumps
\* were written and flushed (the files are closed after it); the report is
\* the rule's id followed by the diff of the two files, which is non-empty
\* exactly when the two ids name different files and the serialisations
\* differ in more than the amount of white space.
C9_DiffReadsFlushedFiles ==
    \A k \in 1..Len(Reports) :
        LET n == Nth(Differing, k)
            id == rules[n].id
            original_rule_id == rules[n].original_rule
            cur == Serialised(rules[n])
            orig == Serialised(log[n].resp)
        IN  /\ id # original_rule_id => log[n].read = <<cur, orig>>
            /\ id = original_rule_id =>
                   /\ log[n].read[1] = cur \o SubSeq(orig, Len(cur) + 1, Len(orig))
                   /\ log[n].read[2] = log[n].read[1]
            /\ Reports[k].id = id
            /\ (Reports[k].text # <<>>) <=>
                   (id # original_rule_id /\ ~SameModuloBlanks(cur, orig))
            /\ Reports[k].text # <<>> =>
                   /\ Reports[k].text[1] = <<"--- ", id>>
                   /\ Reports[k].text[2] = <<"+++ ", original_rule_id>>
                   /\ Len(Reports[k].text) > 2

\* Two mismatching pairs: the first differs in white space only and has an
\* empty diff, the second differs in the order of its fields and has one.
C9_Witness ==
    /\ pc = "done"
    /\ Len(Reports) = 2
    /\ Len(log) = 2
    /\ rules[1].id # rules[1].original_rule
    /\ Reports[1].text = <<>>
    /\ Reports[2].text # <<>>
    /\ log[2].read = <<Serialised(rules[2]), Serialised(log[2].resp)>>

\* C10: the scratch files of a run have unique names: the two of a pair
\* differ, and no name written for a pair is written for another.
C10_UniqueScratchNames ==
    \A a, b \in 1..Len(writes) : a # b => writes[a].name # writes[b].name

====
